---- MODULE Spec2Model ----
\* A model of src/core/loader/elf.cpp: the ElfReader class (header and table
\* interpretation, segment materialisation, symbol extraction) and the
\* AppLoader_ELF::Load orchestration around it.
EXTENDS Integers, Sequences, FiniteSets, TLC

\* ---------------------------------------------------------------------------
\* ELF constants (elf.cpp:20-101)

ET_NONE == 0
ET_REL == 1
ET_EXEC == 2
ET_DYN == 3
ET_CORE == 4

SHT_NULL == 0
SHT_PROGBITS == 1
SHT_SYMTAB == 2
SHT_STRTAB == 3
SHT_NOBITS == 8

PT_NULL == 0
PT_LOAD == 1
PT_NOTE == 4

\* u32 segment_addr[32] (elf.cpp:271)
SegmentAddrLen == 32

\* sizeof(Elf32_Sym) (elf.cpp:156-163): 4 + 4 + 4 + 1 + 1 + 2
SizeofElf32Sym == 16

\* the mask of  st_info & 0xF  (elf.cpp:315), as a modulus
SymTypeModulus == 16

\* ---------------------------------------------------------------------------
\* Bounds of the model

MaxLoadInto == 2
MaxPrefixSegs == 2
MaxSections == 3
MaxSyms == 2
MaxLoadCalls == 3

\* ---------------------------------------------------------------------------
\* u32 values (typedef unsigned int Elf32_Addr, elf.cpp:103).  A u32 is kept as
\* its two 16-bit halves <<hi, lo>>, so that sums are taken modulo 2^32.

Half == 2 ^ 16

U32(hi, lo) == <<hi, lo>>

Zero32 == U32(0, 0)

Add32(a, b) ==
    LET lo == a[2] + b[2]
        hi == a[1] + b[1] + (lo \div Half)
    IN  <<hi % Half, lo % Half>>

\* ---------------------------------------------------------------------------
\* Pointers.  A pointer is either derived from nullptr or points into the file
\* buffer at a byte offset from `base`.

NullPtr == [null |-> TRUE, off |-> 0]

\* const u8 *GetPtr(int offset) const { return (u8*)base + offset; }
GetPtr(offset) == [null |-> FALSE, off |-> offset]

\* ptr + n
PtrAdd(p, n) == [p EXCEPT !.off = @ + n]

\* ---------------------------------------------------------------------------
\* Records overlaid on the file buffer

Shdr(name, type, offset, size, link) ==
    [sh_name |-> name, sh_type |-> type, sh_offset |-> offset,
     sh_size |-> size, sh_link |-> link]

Phdr(type, offset, vaddr, filesz, memsz) ==
    [p_type |-> type, p_offset |-> offset, p_vaddr |-> vaddr,
     p_filesz |-> filesz, p_memsz |-> memsz]

Sym(name, value, size, info) ==
    [st_name |-> name, st_value |-> value, st_size |-> size, st_info |-> info]

\* sections[section], segments[segment]: C arrays are indexed from 0
SectionAt(f, section) == f.sections[section + 1]

SegmentAt(f, segment) == f.segments[segment + 1]

\* ---------------------------------------------------------------------------
\* Characters and C strings.  The file starts with the e_ident bytes of the
\* header; its string bytes live at StrTabOff.  A C string is the run of
\* characters from a pointer up to the first NUL.

NUL == "NUL"

\* File offsets of the string bytes and of the symbol entries in the sample images
StrTabOff == 512
SymTabOff == 1024

\* unsigned char e_ident[EI_NIDENT]: 0x7F 'E' 'L' 'F', class, data, version, pad
EI_NIDENT == 16

CharAt(f, off) ==
    IF off < EI_NIDENT THEN f.e_ident[off + 1] ELSE f.strdata[off - StrTabOff + 1]

RECURSIVE CStrFrom(_, _)
CStrFrom(f, off) ==
    IF CharAt(f, off) = NUL THEN <<>>
    ELSE <<CharAt(f, off)>> \o CStrFrom(f, off + 1)

CStr(f, p) == CStrFrom(f, p.off)

\* strcmp(a, b) == 0
StrEqual(a, b) == a = b

\* ---------------------------------------------------------------------------
\* ElfReader accessors

\* ElfReader::GetSectionDataPtr
GetSectionDataPtr_NoBitsUnchecked(f, section) ==
    IF section < 0 \/ section >= f.e_shnum THEN NullPtr
    ELSE GetPtr(SectionAt(f, section).sh_offset)

GetSectionDataPtr(f, section) ==
    IF section < 0 \/ section >= f.e_shnum THEN NullPtr
    ELSE IF SectionAt(f, section).sh_type # SHT_NOBITS
         THEN GetPtr(SectionAt(f, section).sh_offset)
         ELSE NullPtr

\* ElfReader::GetSegmentPtr
GetSegmentPtr(f, segment) == GetPtr(SegmentAt(f, segment).p_offset)

\* ElfReader::GetSectionName
GetSectionName_NullUnchecked(f, section) ==
    LET name_offset == SectionAt(f, section).sh_name
        ptr == GetSectionDataPtr(f, f.e_shstrndx)
    IN  IF ~ptr.null THEN PtrAdd(ptr, name_offset) ELSE NullPtr

GetSectionName(f, section) ==
    IF SectionAt(f, section).sh_type = SHT_NULL THEN NullPtr
    ELSE LET name_offset == SectionAt(f, section).sh_name
             ptr == GetSectionDataPtr(f, f.e_shstrndx)
         IN  IF ~ptr.null THEN PtrAdd(ptr, name_offset) ELSE NullPtr

\* ElfReader::GetSectionByName: the loop from i = firstSection
RECURSIVE GetSectionByNameFrom(_, _, _)
GetSectionByNameFrom(f, name, i) ==
    IF i >= f.e_shnum THEN -1
    ELSE LET secname == GetSectionName(f, i)
         IN  IF ~secname.null /\ StrEqual(name, CStr(f, secname))
             THEN i
             ELSE GetSectionByNameFrom(f, name, i + 1)

GetSectionByName(f, name, firstSection) == GetSectionByNameFrom(f, name, firstSection)

\* Elf32_Sym at symtab[sym], symtab pointing into the file
SymAt(f, symtab, sym) ==
    f.syms[((symtab.off - SymTabOff) \div SizeofElf32Sym) + sym + 1]

\* ---------------------------------------------------------------------------
\* Calls into the collaborators, recorded in one log in call order; `reader`
\* tells the ElfReader objects apart.

\* Symbols::Add(symtab[sym].st_value, name, size, type)
SymbolsAdd(rid, value, name, size, type) ==
    [kind |-> "sym", reader |-> rid, addr |-> value, name |-> name,
     size |-> size, type |-> type]

\* memcpy(Memory::GetPointer(segment_addr[i]), GetSegmentPtr(i), p->p_filesz)
MemoryWrite(rid, seg, addr, src, len) ==
    [kind |-> "write", reader |-> rid, seg |-> seg, addr |-> addr,
     src |-> src, len |-> len]

\* file.ReadBytes(&buffer[0], size)
FileRead(rid) == [kind |-> "read", reader |-> rid]

\* Kernel::LoadExec(elf_reader.GetEntryPoint())
KernelLoadExec(rid, entry) == [kind |-> "exec", reader |-> rid, entry |-> entry]

\* ---------------------------------------------------------------------------
\* ElfReader::LoadSymbols

\* int numSymbols = sections[sec].sh_size / sizeof(Elf32_Sym)
NumSymbols(f, sec) == SectionAt(f, sec).sh_size \div SizeofElf32Sym

\* int type = symtab[sym].st_info & 0xF
SymbolType(e) == e.st_info % SymTypeModulus

\* the body of  for (int sym = 0; sym < numSymbols; sym++) ; `read` holds the
\* entries symtab[0 .. numSymbols-1] as the loop reads them
RECURSIVE LoadSymbolsLoop_NoSizeFilter(_, _, _, _)
LoadSymbolsLoop_NoSizeFilter(rid, read, stringBase, sym) ==
    IF sym >= Len(read) THEN <<>>
    ELSE LET e == read[sym + 1]
         IN  <<SymbolsAdd(rid, e.st_value, PtrAdd(stringBase, e.st_name),
                          e.st_size, SymbolType(e))>>
             \o LoadSymbolsLoop_NoSizeFilter(rid, read, stringBase, sym + 1)

RECURSIVE LoadSymbolsLoop(_, _, _, _)
LoadSymbolsLoop(rid, read, stringBase, sym) ==
    IF sym >= Len(read) THEN <<>>
    ELSE LET e == read[sym + 1]
             size == e.st_size
         IN  IF size = 0
             THEN LoadSymbolsLoop(rid, read, stringBase, sym + 1)
             ELSE <<SymbolsAdd(rid, e.st_value, PtrAdd(stringBase, e.st_name),
                               size, SymbolType(e))>>
                  \o LoadSymbolsLoop(rid, read, stringBase, sym + 1)

\* hasSymbols: set by every iteration that adds a symbol, returned at the end
HasSymbols_SectionFound(sec, adds) == sec # -1

HasSymbols(sec, adds) == adds # <<>>

\* ".symtab"
DotSymtab == <<".", "s", "y", "m", "t", "a", "b">>

\* What symtab[sym] yields when symtab is nullptr: the read is undefined, so
\* the entries are arbitrary (or the process dies, see LoadSymbols)
ArbitrarySyms(n) ==
    {[k \in 1..n |-> Sym(st, U32(0, 0), sz, 0)] : st \in {0}, sz \in {0, 4}}

\* The outcomes of one LoadSymbols call of reader rid: the Symbols::Add calls
\* it makes, its return value, and whether the process died in it.
LoadSymbols(f, rid) ==
    LET sec == GetSectionByName(f, DotSymtab, 0)
    IN  IF sec = -1
        THEN {[adds |-> <<>>, ret |-> HasSymbols(sec, <<>>), crashed |-> FALSE]}
        ELSE LET stringSection == SectionAt(f, sec).sh_link
                 stringBase == GetSectionDataPtr(f, stringSection)
                 symtab == GetSectionDataPtr(f, sec)
                 numSymbols == NumSymbols(f, sec)
                 Run(read) ==
                     LET adds == LoadSymbolsLoop(rid, read, stringBase, 0)
                     IN  [adds |-> adds, ret |-> HasSymbols(sec, adds),
                          crashed |-> FALSE]
             IN  IF symtab.null /\ numSymbols > 0
                 THEN {[adds |-> <<>>, ret |-> FALSE, crashed |-> TRUE]}
                      \cup {Run(read) : read \in ArbitrarySyms(numSymbols)}
                 ELSE {Run([k \in 1..numSymbols |-> SymAt(f, symtab, k - 1)])}

\* ---------------------------------------------------------------------------
\* ElfReader::LoadInto

\* relocate = (header->e_type != ET_EXEC)
Relocate_Always(f) == TRUE

Relocate(f) == f.e_type # ET_EXEC

\* if (relocate) entryPoint += vaddr;
NewEntryPoint(entry, rel, vaddr) == IF rel THEN Add32(entry, vaddr) ELSE entry

\* u32 base_addr = relocate ? vaddr : 0;
BaseAddr(rel, vaddr) == IF rel THEN vaddr ELSE Zero32

\* segment_addr[i] = ... with i >= 32 stores past the end of the array, which is
\* undefined.  The outcomes kept: the store lands in unused stack and the load
\* goes on as if the array were large enough ("asif"); the process dies at the
\* store ("abort"); the value read back for the memcpy is not the one stored
\* ("clobber", reading `addr` instead).
UBOutcomes ==
    {[kind |-> "asif", addr |-> Zero32], [kind |-> "abort", addr |-> Zero32],
     [kind |-> "clobber", addr |-> U32(48879, 0)]}

StoreInBounds(i) == i < SegmentAddrLen

\* the body of  for (int i = 0; i < header->e_phnum; i++) : one record for each
\* iteration that stores segment_addr[i]; `copied` tells whether its memcpy ran
RECURSIVE LoadSegments(_, _, _, _, _)
LoadSegments(f, rid, base_addr, ub, i) ==
    IF i >= f.e_phnum THEN <<>>
    ELSE LET p == SegmentAt(f, i)
         IN  IF p.p_type = PT_LOAD
             THEN LET stored == Add32(base_addr, p.p_vaddr)
                      w(addr) == MemoryWrite(rid, i, addr, GetSegmentPtr(f, i), p.p_filesz)
                  IN  IF StoreInBounds(i) \/ ub.kind = "asif"
                      THEN <<[copied |-> TRUE, write |-> w(stored)]>>
                           \o LoadSegments(f, rid, base_addr, ub, i + 1)
                      ELSE IF ub.kind = "abort"
                      THEN <<[copied |-> FALSE, write |-> w(stored)]>>
                      ELSE <<[copied |-> TRUE, write |-> w(ub.addr)]>>
                           \o LoadSegments(f, rid, base_addr, ub, i + 1)
             ELSE LoadSegments(f, rid, base_addr, ub, i + 1)

\* the memcpy calls of a run of the loop, in call order
Copies(steps) ==
    LET done == SelectSeq(steps, LAMBDA s : s.copied)
    IN  [k \in 1..Len(done) |-> done[k].write]

\* the indices i at which the run stored segment_addr[i]
Stores(steps) == {steps[k].write.seg : k \in 1..Len(steps)}

\* whether the run died
Aborted(steps) == \E k \in 1..Len(steps) : ~steps[k].copied

\* the runs of the loop a build can produce
LoadRuns(f, rid, base_addr) ==
    LET asif == LoadSegments(f, rid, base_addr, CHOOSE u \in UBOutcomes : u.kind = "asif", 0)
    IN  IF \A i \in Stores(asif) : StoreInBounds(i)
        THEN {asif}
        ELSE {LoadSegments(f, rid, base_addr, ub, 0) : ub \in UBOutcomes}

\* ---------------------------------------------------------------------------
\* The sample images

SeqsUpTo(S, n) == UNION {[1..k -> S] : k \in 0..n}

\* string bytes at StrTabOff:  "" ".symtab" ".text" ".sym", then zero bytes
StrData ==
    <<NUL, ".", "s", "y", "m", "t", "a", "b", NUL, ".", "t", "e", "x", "t", NUL,
      ".", "s", "y", "m", NUL, NUL, NUL, NUL, NUL, NUL, NUL, NUL, NUL, NUL, NUL,
      NUL, NUL>>

\* e_ident of a 32-bit little-endian image
Ident ==
    <<"DEL", "E", "L", "F", "SOH", "SOH", "SOH", NUL, NUL, NUL, NUL, NUL, NUL, NUL,
      NUL, NUL>>

DotText == <<".", "t", "e", "x", "t">>
DotSym == <<".", "s", "y", "m">>
DotBss == <<".", "b", "s", "s">>

Image(type, entry, segs, secs, shstrndx, syms) ==
    [e_type |-> type, e_entry |-> entry, e_phnum |-> Len(segs), segments |-> segs,
     e_shnum |-> Len(secs), sections |-> secs, e_shstrndx |-> shstrndx,
     syms |-> syms, strdata |-> StrData, e_ident |-> Ident]

\* vaddr arguments of LoadInto: 0, 0x00100000, 0xFFFFF000
BaseVals == {Zero32, U32(16, 0), U32(65535, 61440)}

\* e_entry values: 0x00100000, 0x00001000
EntryVals == {U32(16, 0), U32(0, 4096)}

LoadA == Phdr(PT_LOAD, 4096, U32(0, 4096), 4, 8)
LoadB == Phdr(PT_LOAD, 8192, U32(65535, 61440), 2, 2)
NoteC == Phdr(PT_NOTE, 12288, U32(0, 8192), 6, 6)

PhdrSet == {LoadA, LoadB, NoteC}

\* program header tables: every short table, and tables that fill (and
\* overfill by one) the segment_addr array, all entries alike but the last
ShortSegTables == SeqsUpTo(PhdrSet, MaxPrefixSegs)

LongSegTables ==
    {[i \in 1..n |-> IF i < n THEN fill ELSE last] :
        n \in {SegmentAddrLen, SegmentAddrLen + 1}, fill \in {LoadA, NoteC},
        last \in PhdrSet}

NullSec == Shdr(0, SHT_NULL, 0, 0, 0)
StrTabSec == Shdr(9, SHT_STRTAB, StrTabOff, 24, 0)

\* symbol entries
SymSet ==
    {Sym(1, U32(16, 256), 4, 18), Sym(9, U32(16, 512), 0, 1),
     Sym(15, U32(0, 64), 8, 33)}

SymTables == SeqsUpTo(SymSet, MaxSyms)

TwoSyms == <<Sym(1, U32(16, 256), 4, 18), Sym(9, U32(16, 512), 0, 1)>>

\* section tables around a symbol table of n entries: none; no .symtab; a
\* .symtab linked to the string table; one whose size is no multiple of the
\* entry size; one linked to a NOBITS section; one linked out of range; one
\* behind a NULL section of the same name; a NOBITS .symtab
SymSecTables(n) ==
    {<<>>,
     <<NullSec, StrTabSec>>,
     <<NullSec, StrTabSec, Shdr(1, SHT_SYMTAB, SymTabOff, n * SizeofElf32Sym, 1)>>,
     <<NullSec, StrTabSec, Shdr(1, SHT_SYMTAB, SymTabOff, n * SizeofElf32Sym + 8, 1)>>,
     <<Shdr(15, SHT_NOBITS, StrTabOff, 24, 0), StrTabSec,
       Shdr(1, SHT_SYMTAB, SymTabOff, n * SizeofElf32Sym, 0)>>,
     <<NullSec, StrTabSec, Shdr(1, SHT_SYMTAB, SymTabOff, n * SizeofElf32Sym, 7)>>,
     <<Shdr(1, SHT_NULL, SymTabOff, 0, 1), StrTabSec,
       Shdr(1, SHT_PROGBITS, SymTabOff, n * SizeofElf32Sym, 1)>>,
     <<NullSec, StrTabSec, Shdr(1, SHT_NOBITS, SymTabOff, n * SizeofElf32Sym, 1)>>}

SegmentImages ==
    {Image(t, e, segs, <<NullSec, StrTabSec, Shdr(1, SHT_SYMTAB, SymTabOff, 32, 1)>>,
           1, TwoSyms) :
        t \in {ET_REL, ET_EXEC, ET_DYN}, e \in EntryVals,
        segs \in ShortSegTables \cup LongSegTables}

SymbolImages ==
    UNION {{Image(t, U32(16, 0), segs, secs, 1, syms) :
                t \in {ET_EXEC, ET_DYN}, segs \in {<<>>, <<LoadA, NoteC>>},
                secs \in SymSecTables(Len(syms))} :
           syms \in SymTables}

ReaderImages == SegmentImages \cup SymbolImages

\* section headers of the images the section queries run on
QueryShdrs ==
    {NullSec,
     Shdr(1, SHT_NULL, StrTabOff, 8, 0),
     Shdr(1, SHT_SYMTAB, StrTabOff, 8, 0),
     StrTabSec,
     Shdr(15, SHT_NOBITS, StrTabOff, 24, 0),
     Shdr(1, SHT_PROGBITS, StrTabOff + 8, 8, 0)}

QueryImages ==
    UNION {{Image(ET_EXEC, U32(16, 0), <<LoadA>>, secs, x, <<>>) :
                x \in 0..Len(secs)} :
           secs \in SeqsUpTo(QueryShdrs, MaxSections)}

QueryNames == {DotSymtab, DotText, DotSym, DotBss}

LoaderImages ==
    {Image(t, e, segs, <<NullSec, StrTabSec, Shdr(1, SHT_SYMTAB, SymTabOff, 32, 1)>>,
           1, TwoSyms) :
        t \in {ET_EXEC, ET_DYN}, e \in EntryVals, segs \in ShortSegTables}

\* ---------------------------------------------------------------------------
\* State

VARIABLES
    file,           \* the file's contents (the buffer the reader is built on)
    constructed,    \* ElfReader::ElfReader has run
    crashed,        \* the process died in undefined behaviour
    entryPoint,     \* ElfReader::entryPoint
    relocate,       \* ElfReader::relocate
    hasSymbols,     \* what the constructor's LoadSymbols() returned
    loadCalls,      \* number of LoadInto calls made on the reader
    lastVaddr,      \* vaddr of the last LoadInto call
    callStart,      \* length of `events` when the last LoadInto call began
    segAddrStores,  \* indices i of segment_addr[i] stored by the last LoadInto
    events,         \* calls into Symbols, Memory, File and Kernel, in order
    ret,            \* the last section query and what it returned
    is_loaded,      \* AppLoader_ELF::is_loaded
    loadResults     \* ResultStatus of each AppLoader_ELF::Load call, in order

vars ==
    <<file, constructed, crashed, entryPoint, relocate, hasSymbols, loadCalls,
      lastVaddr, callStart, segAddrStores, events, ret, is_loaded, loadResults>>

readerVars ==
    <<constructed, entryPoint, relocate, hasSymbols, loadCalls, lastVaddr,
      callStart, segAddrStores>>

NoCall == [op |-> "none"]

InitOn(images) ==
    /\ file \in images
    /\ constructed = FALSE
    /\ crashed = FALSE
    /\ entryPoint = Zero32
    /\ relocate = FALSE
    /\ hasSymbols = FALSE
    /\ loadCalls = 0
    /\ lastVaddr = Zero32
    /\ callStart = 0
    /\ segAddrStores = {}
    /\ events = <<>>
    /\ ret = NoCall
    /\ is_loaded = FALSE
    /\ loadResults = <<>>

\* the reader the caller drives directly; the reader built inside the n-th
\* AppLoader_ELF::Load call is reader n
Direct == "direct"

\* ElfReader::ElfReader(void *ptr).  `relocate` is not initialised: it holds an
\* indeterminate value until the first LoadInto.
Construct ==
    /\ ~constructed
    /\ ~crashed
    /\ \E o \in LoadSymbols(file, Direct), indeterminate \in BOOLEAN :
         /\ entryPoint' = file.e_entry
         /\ relocate' = indeterminate
         /\ events' = events \o o.adds
         /\ hasSymbols' = o.ret
         /\ crashed' = o.crashed
    /\ constructed' = TRUE
    /\ UNCHANGED <<file, loadCalls, lastVaddr, callStart, segAddrStores, ret,
                   is_loaded, loadResults>>

\* bool ElfReader::LoadInto(u32 vaddr)
LoadInto_ReloadingSymbols ==
    /\ constructed
    /\ ~crashed
    /\ loadCalls < MaxLoadInto
    /\ \E vaddr \in BaseVals :
         LET rel == Relocate(file)
         IN  \E run \in LoadRuns(file, Direct, BaseAddr(rel, vaddr)),
                o \in LoadSymbols(file, Direct) :
               /\ relocate' = rel
               /\ entryPoint' = NewEntryPoint(entryPoint, rel, vaddr)
               /\ events' = events \o Copies(run) \o o.adds
               /\ segAddrStores' = Stores(run)
               /\ crashed' = Aborted(run)
               /\ lastVaddr' = vaddr
    /\ callStart' = Len(events)
    /\ loadCalls' = loadCalls + 1
    /\ UNCHANGED <<file, constructed, hasSymbols, ret, is_loaded, loadResults>>

LoadInto ==
    /\ constructed
    /\ ~crashed
    /\ loadCalls < MaxLoadInto
    /\ \E vaddr \in BaseVals :
         LET rel == Relocate(file)
         IN  \E run \in LoadRuns(file, Direct, BaseAddr(rel, vaddr)) :
               /\ relocate' = rel
               /\ entryPoint' = NewEntryPoint(entryPoint, rel, vaddr)
               /\ events' = events \o Copies(run)
               /\ segAddrStores' = Stores(run)
               /\ crashed' = Aborted(run)
               /\ lastVaddr' = vaddr
    /\ callStart' = Len(events)
    /\ loadCalls' = loadCalls + 1
    /\ UNCHANGED <<file, constructed, hasSymbols, ret, is_loaded, loadResults>>

\* a call of GetSectionByName(name, firstSection) on the constructed reader.
\* The section queries are const and leave the reader as it is, so a behaviour
\* is followed up to its first query.
CallGetSectionByName ==
    /\ constructed
    /\ ~crashed
    /\ ret = NoCall
    /\ \E name \in QueryNames, firstSection \in 0..(MaxSections + 1) :
         ret' = [op |-> "GetSectionByName", name |-> name,
                 firstSection |-> firstSection,
                 val |-> GetSectionByName(file, name, firstSection)]
    /\ UNCHANGED <<file, crashed, events, is_loaded, loadResults>>
    /\ UNCHANGED readerVars

\* a call of GetSectionDataPtr(section) on the constructed reader
CallGetSectionDataPtr ==
    /\ constructed
    /\ ~crashed
    /\ ret = NoCall
    /\ \E section \in (-1)..(MaxSections + 1) :
         ret' = [op |-> "GetSectionDataPtr", section |-> section,
                 val |-> GetSectionDataPtr(file, section)]
    /\ UNCHANGED <<file, crashed, events, is_loaded, loadResults>>
    /\ UNCHANGED readerVars

\* elf_reader.LoadInto(0x00100000) in AppLoader_ELF::Load
LoadAddress == U32(16, 0)

\* ResultStatus AppLoader_ELF::Load(): the guard on is_loaded, then the file is
\* opened (which may fail), read, parsed by a local ElfReader, loaded and run
Load ==
    /\ ~crashed
    /\ Len(loadResults) < MaxLoadCalls
    /\ IF is_loaded
       THEN /\ loadResults' = Append(loadResults, "ErrorAlreadyLoaded")
            /\ UNCHANGED <<events, crashed>>
       ELSE \E isOpen \in BOOLEAN :
              IF isOpen
              THEN LET rid == Len(loadResults) + 1
                       rel == Relocate(file)
                   IN  \E o \in LoadSymbols(file, rid),
                          run \in LoadRuns(file, rid, BaseAddr(rel, LoadAddress)) :
                         LET died == o.crashed \/ Aborted(run)
                             entry == NewEntryPoint(file.e_entry, rel, LoadAddress)
                         IN  /\ crashed' = died
                             /\ events' =
                                  IF o.crashed
                                  THEN events \o <<FileRead(rid)>>
                                  ELSE IF Aborted(run)
                                  THEN events \o <<FileRead(rid)>> \o o.adds \o Copies(run)
                                  ELSE events \o <<FileRead(rid)>> \o o.adds \o Copies(run)
                                       \o <<KernelLoadExec(rid, entry)>>
                             /\ loadResults' =
                                  IF died THEN loadResults
                                  ELSE Append(loadResults, "Success")
              ELSE /\ loadResults' = Append(loadResults, "Error")
                   /\ UNCHANGED <<events, crashed>>
    /\ is_loaded' = is_loaded
    /\ UNCHANGED <<file, ret>>
    /\ UNCHANGED readerVars

\* ---------------------------------------------------------------------------
\* Specifications

\* a reader built on an image and loaded by its caller
Init == InitOn(ReaderImages)
Next == Construct \/ LoadInto
Spec == Init /\ [][Next]_vars

\* a reader built on an image and queried for its sections
InitQuery == InitOn(QueryImages)
NextQuery == Construct \/ CallGetSectionByName \/ CallGetSectionDataPtr
SpecQuery == InitQuery /\ [][NextQuery]_vars

\* an AppLoader_ELF asked to Load, repeatedly
InitLoader == InitOn(LoaderImages)
NextLoader == Load
SpecLoader == InitLoader /\ [][NextLoader]_vars

\* ---------------------------------------------------------------------------
\* Properties

Min(S) == CHOOSE x \in S : \A y \in S : x <= y

\* the Symbols::Add calls made for a reader, in call order
SymbolsOf(rid) == SelectSeq(events, LAMBDA e : e.kind = "sym" /\ e.reader = rid)

\* the Memory writes of the reader's last LoadInto call, in call order
LastWrites == SubSeq(events, callStart + 1, Len(events))

\* the section holding the section names, when it has file data
HasNameData(f) ==
    /\ f.e_shstrndx < f.e_shnum
    /\ SectionAt(f, f.e_shstrndx).sh_type # SHT_NOBITS

\* section i carries `name`: it is not of type NULL and the string at its
\* sh_name in the e_shstrndx section reads `name`
Named(f, i, name) ==
    /\ SectionAt(f, i).sh_type # SHT_NULL
    /\ HasNameData(f)
    /\ CStrFrom(f, SectionAt(f, f.e_shstrndx).sh_offset + SectionAt(f, i).sh_name) = name

\* the smallest index from `first` on that carries `name`, or -1
FirstNamed(f, name, first) ==
    LET M == {i \in first..(f.e_shnum - 1) : Named(f, i, name)}
    IN  IF M = {} THEN -1 ELSE Min(M)

SymtabIndex(f) == FirstNamed(f, DotSymtab, 0)

EntryCount(f) == SectionAt(f, SymtabIndex(f)).sh_size \div SizeofElf32Sym

\* the symbol table entries, in table order
Entries(f) ==
    [k \in 1..EntryCount(f) |->
        f.syms[((SectionAt(f, SymtabIndex(f)).sh_offset - SymTabOff) \div SizeofElf32Sym) + k]]

\* the symbol table's entries can be read from the file: there is no table, or
\* it has no entries, or it has file data
SymtabReadable(f) ==
    \/ SymtabIndex(f) = -1
    \/ EntryCount(f) = 0
    \/ SectionAt(f, SymtabIndex(f)).sh_type # SHT_NOBITS

ExpectedSymbols(f, rid) ==
    IF SymtabIndex(f) = -1 THEN <<>>
    ELSE LET kept == SelectSeq(Entries(f), LAMBDA e : e.st_size # 0)
             stringBase == GetSectionDataPtr(f, SectionAt(f, SymtabIndex(f)).sh_link)
         IN  [k \in 1..Len(kept) |->
                [kind |-> "sym", reader |-> rid, addr |-> kept[k].st_value,
                 name |-> [null |-> stringBase.null,
                           off |-> stringBase.off + kept[k].st_name],
                 size |-> kept[k].st_size, type |-> kept[k].st_info % 16]]

\* the indices of the LOAD entries, in header-array order
LoadIndices(f) ==
    SelectSeq([i \in 1..f.e_phnum |-> i - 1], LAMBDA i : SegmentAt(f, i).p_type = PT_LOAD)

ExpectedWrites(f, rid, rel, base) ==
    LET idx == LoadIndices(f)
    IN  [k \in 1..Len(idx) |->
            [kind |-> "write", reader |-> rid, seg |-> idx[k],
             addr |-> Add32(IF rel THEN base ELSE Zero32, SegmentAt(f, idx[k]).p_vaddr),
             src |-> [null |-> FALSE, off |-> SegmentAt(f, idx[k]).p_offset],
             len |-> SegmentAt(f, idx[k]).p_filesz]]

\* C1: for a file of type DYN or REL, after every LoadInto(base) call, first or
\* repeated, DidRelocate() is true and GetEntryPoint() is e_entry + base
\* modulo 2^32.
C1_EntryIsHeaderEntryPlusBase ==
    (constructed /\ loadCalls >= 1 /\ file.e_type \in {ET_DYN, ET_REL})
        => (relocate /\ entryPoint = Add32(file.e_entry, lastVaddr))

\* C2: for a file of type EXEC, GetEntryPoint() is the raw e_entry whatever
\* LoadInto calls were made, and after any LoadInto call DidRelocate() is false.
C2_ExecEntryIsRaw ==
    (constructed /\ file.e_type = ET_EXEC)
        => /\ entryPoint = file.e_entry
           /\ loadCalls >= 1 => ~relocate

C2_Witness ==
    /\ file.e_type = ET_EXEC
    /\ loadCalls = 2
    /\ lastVaddr # Zero32
    /\ entryPoint = file.e_entry
    /\ ~relocate

\* C3: one LoadInto(base) call makes exactly one write per LOAD entry, in
\* header-array order, each of p_filesz bytes from file offset p_offset to
\* (relocate ? base : 0) + p_vaddr modulo 2^32, and none for other entries.
C3_WritesAreTheLoadSegments ==
    (constructed /\ loadCalls >= 1)
        => LastWrites = ExpectedWrites(file, Direct, file.e_type # ET_EXEC, lastVaddr)

\* C4: the constructor's LoadSymbols reports exactly the symbol table entries of
\* nonzero st_size, once each and in table order, as (st_value, string base +
\* st_name, st_size, st_info & 0x0F), the entry count being sh_size of .symtab
\* divided by the entry size; with no section named .symtab it reports nothing.
\* (Stated of the images whose symbol table entries can be read from the file.)
C4_SymbolsReported ==
    (constructed /\ SymtabReadable(file))
        => SymbolsOf(Direct) = ExpectedSymbols(file, Direct)

C4_Witness ==
    /\ constructed
    /\ SymtabIndex(file) # -1
    /\ SectionAt(file, SymtabIndex(file)).sh_size % SizeofElf32Sym # 0
    /\ EntryCount(file) = 2
    /\ Len(SymbolsOf(Direct)) = 1
    /\ Entries(file)[1].st_size = 0
    /\ SymbolsOf(Direct)[1].addr = Entries(file)[2].st_value

\* C5 as stated: LoadSymbols returns false when no .symtab section exists and
\* true whenever one exists, whatever the table holds.
C5_TrueWheneverSymtabExists ==
    (constructed /\ ~crashed) => (hasSymbols <=> SymtabIndex(file) # -1)

\* C5 as amended: LoadSymbols returns false when no .symtab section exists; when
\* one exists it returns true exactly when it reported a symbol, that is when
\* the table holds an entry of nonzero st_size, and false for a table with no
\* entries or with entries of st_size 0 only.
C5_TrueIffSymbolReported ==
    (constructed /\ ~crashed)
        => /\ SymtabIndex(file) = -1 => ~hasSymbols
           /\ hasSymbols <=> SymbolsOf(Direct) # <<>>
           /\ (SymtabIndex(file) # -1 /\ SymtabReadable(file))
                 => (hasSymbols <=>
                        \E k \in 1..EntryCount(file) : Entries(file)[k].st_size # 0)

C5_Witness ==
    /\ constructed
    /\ ~crashed
    /\ SymtabIndex(file) # -1
    /\ SymtabReadable(file)
    /\ EntryCount(file) = 2
    /\ ~hasSymbols

\* C6: GetSectionByName(name, firstSection) returns the smallest index i with
\* firstSection <= i < e_shnum whose section is not of type NULL and whose name,
\* read through the e_shstrndx section, is exactly name; -1 when there is none,
\* as when only NULL sections carry the name or the e_shstrndx section has no
\* file data.
C6_FirstNamedSection ==
    ret.op = "GetSectionByName"
        => ret.val = FirstNamed(file, ret.name, ret.firstSection)

C6_Witness ==
    /\ ret.op = "GetSectionByName"
    /\ ret.firstSection = 0
    /\ ret.val = 2
    /\ SectionAt(file, 0).sh_type = SHT_NULL
    /\ SectionAt(file, 0).sh_name = SectionAt(file, 2).sh_name
    /\ file.e_shstrndx = 1

\* C7: GetSectionDataPtr(index) returns nullptr when index < 0, when
\* index >= e_shnum and when the section is of type NOBITS, whatever its
\* sh_offset and sh_size; otherwise the pointer to file offset sh_offset.
C7_SectionData ==
    ret.op = "GetSectionDataPtr"
        => ret.val =
             IF ret.section < 0 \/ ret.section >= file.e_shnum
             THEN [null |-> TRUE, off |-> 0]
             ELSE IF file.sections[ret.section + 1].sh_type = SHT_NOBITS
             THEN [null |-> TRUE, off |-> 0]
             ELSE [null |-> FALSE, off |-> file.sections[ret.section + 1].sh_offset]

C7_Witness ==
    /\ ret.op = "GetSectionDataPtr"
    /\ ret.section >= 0
    /\ ret.section < file.e_shnum
    /\ SectionAt(file, ret.section).sh_type = SHT_NOBITS
    /\ SectionAt(file, ret.section).sh_size > 0
    /\ SectionAt(file, ret.section).sh_offset > 0
    /\ ret.val.null

\* every Symbols::Add of the reader comes before every Memory write of it
SymbolsBeforeWrites ==
    \A i, j \in 1..Len(events) :
        (events[i].kind = "sym" /\ events[j].kind = "write"
            /\ events[i].reader = events[j].reader) => i < j

\* C8: symbol extraction runs once per reader, at construction: every symbol
\* add of a reader comes before any memory write of its LoadInto, LoadInto adds
\* no symbol, and the symbols reported are the same after zero, one or several
\* LoadInto calls.
C8_SymbolsOnlyAtConstruction ==
    /\ [](SymbolsBeforeWrites)
    /\ [][constructed => SymbolsOf(Direct)' = SymbolsOf(Direct)]_vars

C8_Witness ==
    /\ loadCalls = 2
    /\ SymbolsOf(Direct) # <<>>
    /\ callStart > Len(SymbolsOf(Direct))
    /\ Len(events) > callStart

\* the Kernel::LoadExec calls made so far
ExecCount == Len(SelectSeq(events, LAMBDA e : e.kind = "exec"))

\* C9: after a Load that returned Success, every later Load on the same loader
\* returns ErrorAlreadyLoaded, so Kernel::LoadExec runs at most once.
C9_LoadOnce ==
    /\ \A i, j \in 1..Len(loadResults) :
          (i < j /\ loadResults[i] = "Success") => loadResults[j] = "ErrorAlreadyLoaded"
    /\ ExecCount <= 1

\* C10: for every e_phnum and every LOAD entry at index i, the store of that
\* segment's load address stays inside the per-segment address array.
C10_StoresStayInArray ==
    \A i \in segAddrStores : i >= 0 /\ i < SegmentAddrLen

====
